---------------------------- MODULE Spec2Model ----------------------------
(***************************************************************************)
(* Pharmyrus Patent Search API v6.0 (src/main.py): the retrying HTTP       *)
(* fetcher, the API key rotator, the WO -> BR resolution chain and the     *)
(* search_patents pipeline with its consolidation step.                    *)
(*                                                                         *)
(* Strings the program inspects character by character (identifiers,       *)
(* molecule names) are sequences of one-character strings.  debug_log and  *)
(* logger output are write-only text and are left out.                     *)
(***************************************************************************)
EXTENDS Naturals, Sequences, FiniteSets

VARIABLES
    \* ---- http_get_with_retry (one call in progress at most per request)
    f_pc,          \* "idle" | "get" | "sleep_backoff" | "sleep_fixed" | "returned" | "raised"
    f_caller,      \* who awaits the call: "none", "direct" or a call site of the program
    max_retries,   \* the max_retries argument of the call
    attempt,       \* the loop variable of `for attempt in range(max_retries)`
    response,      \* the value returned: "none" (None) or "r200" (a 200 response)
    outcomes,      \* history: what client.get did in each attempt of a direct call
    contacted,     \* history: the call sites on whose behalf a GET was sent
    \* ---- serpapi_rotator and the tasks calling get_key
    index,         \* APIKeyRotator.index
    lock,          \* APIKeyRotator.lock: 0 when free, else the caller holding it
    r_pc,          \* per caller: "idle" | "locked" | "read" | "advanced" | "using"
    r_key,         \* per caller: the local variable key
    r_seen,        \* per caller: the value of index its call read (0 before any)
    handed,        \* history: [key, seen] of each completed get_key, in completion order
    used,          \* history: [key, ok] of each finished use of a handed key
    \* ---- extract_br_from_wo (one call in progress at most per request)
    c_pc,          \* where the call is: "idle", "get_key", "hop1_call", ... "returned"
    wo_number,     \* the wo_number argument
    api_key,       \* the local variable api_key
    result,        \* the local dict result: [br_patents, status, reason]
    patent_data,   \* the local patent_data, once line 492 has read it
    c_calls,       \* history: the hops whose fetch was called, in call order
    c_events,      \* history: the hops and the scan that ended well, "scan_raised",
                   \* and the hop failure that was not an exception
    \* ---- search_patents (one request)
    p_pc,          \* where the request is: "idle", "pubchem_call", ... "responded"
    molecule,      \* the local variable molecule
    brand,         \* the local variable brand: no string (None) or one string
    pubchem_data,  \* what fetch_pubchem_data returned: [dev_codes, cas, synonyms]
    pubchem_failed,\* history: the lookup got None, or line 157 caught an exception
    q_i,           \* discover_wo_numbers: the loop variable i of line 353
    all_wo_numbers,\* discover_wo_numbers: the set all_wo_numbers
    wo_numbers,    \* the list discover_wo_numbers returned
    q_outcome,     \* how the last query ended, "" once the next is issued or the loop left
    q_log,         \* history: the positions of the queries handed to an engine
    q_found,       \* history: the WO numbers in the results of the queries so far
    q_paused,      \* history: line 378 has slept since the last query was issued
    wo_i,          \* the loop variable i of line 680
    wo_results,    \* the list wo_results
    all_br_from_wo,\* the set all_br_from_wo
    term_i,        \* search_inpi_direct: how many terms of search_terms are done
    inpi,          \* search_inpi_direct: the locals br_patents and seen_numbers
    t_paused,      \* history: line 618 has slept since the last term was sent
    t_sent,        \* history: the terms sent to the crawler, in the order sent
    consolidated,  \* [all_br_patents, seen_br] of lines 702-727
    report,        \* the response dict of lines 746-821, its counts
    \* ---- extract_wo_numbers_from_text (one call)
    x_pc,          \* "idle" | "called" | "returned"
    x_text,        \* the text argument
    x_wo_numbers,  \* the set wo_numbers the call returned
    \* ---- the event loop: the tasks of concurrent requests to search_patents
    task_pos,      \* per request: 0 before it arrives, else its place in AwaitSites
    task_waiting,  \* per request: its coroutine is suspended on the call it awaits
    task_calls     \* per request: the places whose outbound call is in flight

fetchVars == <<f_pc, f_caller, max_retries, attempt, response, outcomes, contacted>>
rotVars == <<index, lock, r_pc, r_key, r_seen, handed, used>>
chainVars == <<c_pc, wo_number, api_key, result, patent_data, c_calls, c_events>>
inputVars == <<molecule, brand, pubchem_data, pubchem_failed>>
discoveryVars == <<q_i, all_wo_numbers, wo_numbers, q_outcome, q_log, q_found, q_paused>>
resolutionVars == <<wo_i, wo_results, all_br_from_wo>>
inpiVars == <<term_i, inpi, t_paused, t_sent>>
outputVars == <<consolidated, report>>
searchVars == <<p_pc, inputVars, discoveryVars, resolutionVars, inpiVars, outputVars>>

extractVars == <<x_pc, x_text, x_wo_numbers>>
taskVars == <<task_pos, task_waiting, task_calls>>

vars == <<fetchVars, rotVars, chainVars, searchVars, extractVars, taskVars>>

-----------------------------------------------------------------------------
(* Bounds of the model *)

\* the largest max_retries a direct call of http_get_with_retry is given
MaxRetriesBound == 3

\* the number of tasks that call get_key concurrently
NumCallers == 2

\* the number of get_key calls made in one behaviour of SpecRotator
MaxKeyCalls == 5

\* the number of requests to /search the event loop serves at a time
NumRequests == 2

\* the queries, WO numbers and search terms of a request of SpecRequests
PlanQueries == 2
PlanWos == 1
PlanTerms == 2

-----------------------------------------------------------------------------
(* http_get_with_retry, src/main.py:94-114 *)

\* default of the max_retries parameter; every call site of the program uses it
DefaultMaxRetries == 3

\* What one client.get can do: answer 200, answer 429, answer another status,
\* raise httpx.TimeoutException, raise httpx.ConnectError, or raise any other
\* exception of the client (httpx.ReadError, httpx.RemoteProtocolError, ...).
Outcomes == {"200", "429", "other", "timeout", "connect", "transport"}

\* the exceptions the except clause of line 110 names
CaughtOutcomes == {"timeout", "connect"}

\* `for attempt in range(max_retries)` is over once attempt reaches max_retries
LoopExhausted_offByOne(att, maxr) == att + 1 >= maxr
LoopExhausted(att, maxr) == att >= maxr

\* What the loop body does with the outcome of the attempt numbered att.
AttemptEffect(o, att, maxr) ==
    CASE o = "200" -> "return"                 \* line 105-106
      [] o = "429" -> "sleep_backoff"          \* line 107-109
      [] o = "other" -> "next"                 \* no branch taken: next iteration
      [] o \in CaughtOutcomes ->               \* line 110-113
            IF att < maxr - 1 THEN "sleep_fixed" ELSE "next"
      [] OTHER -> "raise"                      \* not caught: propagates

\* the state after the loop body of attempt att ended without return or raise
NextIteration(att) ==
    /\ attempt' = att + 1
    /\ IF LoopExhausted(att + 1, max_retries)
         THEN f_pc' = "returned" /\ response' = "none"     \* line 114
         ELSE f_pc' = "get" /\ response' = response

\* the caller's `await http_get_with_retry(...)`: the call starts
HttpCall(caller, maxr) ==
    /\ f_pc = "idle"
    /\ f_pc' = (IF LoopExhausted(0, maxr) THEN "returned" ELSE "get")
    /\ f_caller' = caller
    /\ max_retries' = maxr
    /\ attempt' = 0
    /\ response' = "none"
    /\ outcomes' = <<>>
    /\ UNCHANGED contacted

\* line 104: one client.get and the branch its outcome selects
HttpAttempt(o) ==
    /\ f_pc = "get"
    /\ outcomes' = (IF f_caller = "direct" THEN Append(outcomes, o) ELSE outcomes)
    /\ contacted' = contacted \cup {f_caller}
    /\ LET e == AttemptEffect(o, attempt, max_retries) IN
         CASE e = "return" ->
                 f_pc' = "returned" /\ response' = "r200" /\ attempt' = attempt
           [] e = "raise" ->
                 f_pc' = "raised" /\ response' = response /\ attempt' = attempt
           [] e = "next" -> NextIteration(attempt)
           [] OTHER -> f_pc' = e /\ response' = response /\ attempt' = attempt
    /\ UNCHANGED <<f_caller, max_retries>>

\* line 108 (asyncio.sleep(2 ** attempt); continue) and line 113 (asyncio.sleep(1))
HttpSleep ==
    /\ f_pc \in {"sleep_backoff", "sleep_fixed"}
    /\ NextIteration(attempt)
    /\ UNCHANGED <<f_caller, max_retries, outcomes, contacted>>

\* the call is over and its caller has taken the result: the frame is gone
HttpConsumed ==
    /\ f_pc' = "idle"
    /\ f_caller' = "none"
    /\ max_retries' = DefaultMaxRetries
    /\ attempt' = 0
    /\ response' = "none"
    /\ outcomes' = <<>>
    /\ UNCHANGED contacted

InitFetch ==
    /\ f_pc = "idle"
    /\ f_caller = "none"
    /\ max_retries = DefaultMaxRetries
    /\ attempt = 0
    /\ response = "none"
    /\ outcomes = <<>>
    /\ contacted = {}

-----------------------------------------------------------------------------
(* APIKeyRotator, src/main.py:76-88 *)

\* the three SerpAPI keys of lines 50-54, by their first characters
SERPAPI_KEYS == <<"871b", "bc20", "3f22">>

Callers == 1..NumCallers

\* line 84: self.keys[self.index % len(self.keys)]
KeyAt_shortModulus(idx) == SERPAPI_KEYS[(idx % (Len(SERPAPI_KEYS) - 1)) + 1]
KeyAt(idx) == SERPAPI_KEYS[(idx % Len(SERPAPI_KEYS)) + 1]

\* asyncio.Lock: acquire() returns only when no task holds the lock
LockFree_noExclusion(l) == TRUE
LockFree(l) == l = 0

\* line 83: async with self.lock -- the lock is taken
GetKeyAcquire(c) ==
    /\ r_pc[c] = "idle"
    /\ Len(handed) + Cardinality({d \in Callers : r_pc[d] \in {"locked", "read", "advanced"}})
          < MaxKeyCalls
    /\ LockFree(lock)
    /\ lock' = c
    /\ r_pc' = [r_pc EXCEPT ![c] = "locked"]
    /\ UNCHANGED <<index, r_key, r_seen, handed, used>>

\* line 84: key = self.keys[self.index % len(self.keys)]
GetKeyRead(c) ==
    /\ r_pc[c] = "locked"
    /\ r_key' = [r_key EXCEPT ![c] = KeyAt(index)]
    /\ r_seen' = [r_seen EXCEPT ![c] = index]
    /\ r_pc' = [r_pc EXCEPT ![c] = "read"]
    /\ UNCHANGED <<index, lock, handed, used>>

\* line 85: self.index += 1
GetKeyAdvance(c) ==
    /\ r_pc[c] = "read"
    /\ index' = index + 1
    /\ r_pc' = [r_pc EXCEPT ![c] = "advanced"]
    /\ UNCHANGED <<lock, r_key, r_seen, handed, used>>

\* line 86: return key -- leaving the `async with` block releases the lock
GetKeyReturn(c) ==
    /\ r_pc[c] = "advanced"
    /\ lock' = 0
    /\ handed' = Append(handed, [key |-> r_key[c], seen |-> r_seen[c]])
    /\ r_pc' = [r_pc EXCEPT ![c] = "using"]
    /\ UNCHANGED <<index, r_key, r_seen, used>>

\* the caller's request made with the key ends, well (ok) or not; the rotator
\* is not told
KeyUsed(c, ok) ==
    /\ r_pc[c] = "using"
    /\ used' = Append(used, [key |-> r_key[c], ok |-> ok])
    /\ r_pc' = [r_pc EXCEPT ![c] = "idle"]
    /\ UNCHANGED <<index, lock, r_key, r_seen, handed>>

\* serpapi_rotator = APIKeyRotator(SERPAPI_KEYS), line 88
InitRotator ==
    /\ index = 0
    /\ lock = 0
    /\ r_pc = [c \in Callers |-> "idle"]
    /\ r_key = [c \in Callers |-> ""]
    /\ r_seen = [c \in Callers |-> 0]
    /\ handed = <<>>
    /\ used = <<>>

-----------------------------------------------------------------------------
(* Identifiers, as sequences of characters *)

\* str.startswith("BR"), lines 505, 513, 519, 523, 531, 539, 602
StartsWithBR(s) == Len(s) >= 2 /\ s[1] = "B" /\ s[2] = "R"

\* the letters, for str.upper() and str.lower()
LowerLetters == <<"a", "b", "c", "d", "e", "f", "g", "h", "i", "j", "k", "l", "m",
                  "n", "o", "p", "q", "r", "s", "t", "u", "v", "w", "x", "y", "z">>
UpperLetters == <<"A", "B", "C", "D", "E", "F", "G", "H", "I", "J", "K", "L", "M",
                  "N", "O", "P", "Q", "R", "S", "T", "U", "V", "W", "X", "Y", "Z">>

UpperChar(c) ==
    IF \E i \in 1..26 : LowerLetters[i] = c
      THEN UpperLetters[CHOOSE i \in 1..26 : LowerLetters[i] = c]
      ELSE c
LowerChar(c) ==
    IF \E i \in 1..26 : UpperLetters[i] = c
      THEN LowerLetters[CHOOSE i \in 1..26 : UpperLetters[i] = c]
      ELSE c

\* str.upper(), str.lower()
Upper(s) == [i \in 1..Len(s) |-> UpperChar(s[i])]
Lower(s) == [i \in 1..Len(s) |-> LowerChar(s[i])]

\* s.replace(c, ""), for a character c
RemoveChar(s, c) ==
    LET Keep(d) == d # c IN SelectSeq(s, Keep)

\* s.replace(" ", "-"), line 603
SpacesToHyphens(s) == [i \in 1..Len(s) |-> IF s[i] = " " THEN "-" ELSE s[i]]

\* lines 604, 707, 718: x.replace("-", "").replace(" ", "").upper()
Norm(s) == Upper(RemoveChar(RemoveChar(s, "-"), " "))

\* str.strip(), lines 646-647: leading and trailing blanks go
RECURSIVE LStrip(_)
LStrip(s) == IF Len(s) > 0 /\ s[1] = " " THEN LStrip(Tail(s)) ELSE s
RECURSIVE RStrip(_)
RStrip(s) ==
    IF Len(s) > 0 /\ s[Len(s)] = " " THEN RStrip(SubSeq(s, 1, Len(s) - 1)) ELSE s
Strip(s) == RStrip(LStrip(s))

\* seq[:n]
Prefix(seq, n) == SubSeq(seq, 1, IF Len(seq) < n THEN Len(seq) ELSE n)

\* the orders in which iterating over a Python set may visit it
Orders(S) ==
    { f \in [1..Cardinality(S) -> S] : \A i, j \in 1..Cardinality(S) : i # j => f[i] # f[j] }

\* str.endswith(suffix)
EndsWith(s, suffix) ==
    /\ Len(s) >= Len(suffix)
    /\ SubSeq(s, Len(s) - Len(suffix) + 1, Len(s)) = suffix

\* WO numbers, as the strings extract_wo_numbers_from_text gives
WO2011051540 == <<"W", "O", "2", "0", "1", "1", "0", "5", "1", "5", "4", "0">>
WO2016120530 == <<"W", "O", "2", "0", "1", "6", "1", "2", "0", "5", "3", "0">>

\* document ids that detail records of the model carry
BR1A == <<"B", "R", "1", "A">>
BR_1a == <<"B", "R", "-", "1", "a">>
BR2 == <<"B", "R", "2">>
US1 == <<"U", "S", "1">>

-----------------------------------------------------------------------------
(* The detail record read by extract_br_from_wo, src/main.py:492-540 *)

\* An element of a list of the detail record:
\*   t = "dict": a JSON object whose identifier field is the string v
\*   t = "dict_nokey": a JSON object without the identifier field
\*   t = "dict_null": a JSON object whose identifier field is null
\*   t = "str": the JSON string v;  t = "other": a number, null, a list
Doc(id) == [t |-> "dict", v |-> id]
Str(id) == [t |-> "str", v |-> id]
DocNoKey == [t |-> "dict_nokey", v |-> <<>>]
DocNull == [t |-> "dict_null", v |-> <<>>]
Other == [t |-> "other", v |-> <<>>]

\* A JSON value read where a list (or, for worldwide_applications, a map) is
\* expected: isList says it is one, items are its elements (the map's values).
\* Iterating a value that is none (null, a number) raises.
List(items) == [isList |-> TRUE, items |-> items]
NotAList == [isList |-> FALSE, items |-> <<>>]

\* x.get(key, "").startswith("BR") on a dict x: None.startswith raises
DictRaises(e) == e.t = "dict_null"
DictKept(e) == e.t = "dict" /\ StartsWithBR(e.v)

\* the identifiers of the dicts among items that the prefix test keeps
DictKeptIds(items) == { items[i].v : i \in {j \in 1..Len(items) : DictKept(items[j])} }

\* Source A, lines 500-506.  Only a year whose value is a list is looked
\* into; app.get raises on an app that is no dict.
WorldwideAppRaises(app) == app.t \in {"str", "other"} \/ DictRaises(app)
WorldwideRaises(w) ==
    \/ ~ w.isList
    \/ \E y \in 1..Len(w.items) :
          /\ w.items[y].isList
          /\ \E i \in 1..Len(w.items[y].items) : WorldwideAppRaises(w.items[y].items[i])
WorldwideBR(w) ==
    UNION { DictKeptIds(w.items[y].items) :
              y \in {z \in 1..Len(w.items) : w.items[z].isList} }

\* Sources B, D, E, lines 509-514, 527-532, 535-540: only dicts are looked at
RecordListRaises(l) ==
    \/ ~ l.isList
    \/ \E i \in 1..Len(l.items) : DictRaises(l.items[i])
RecordListBR(l) == DictKeptIds(l.items)

\* Source C, lines 517-524: a string is kept when BR-prefixed, a dict as above
AlsoKept(e) == (e.t = "str" /\ StartsWithBR(e.v)) \/ DictKept(e)
AlsoPublishedRaises(l) == RecordListRaises(l)
AlsoPublishedBR(l) == { l.items[i].v : i \in {j \in 1..Len(l.items) : AlsoKept(l.items[j])} }

\* lines 497-540: the scan of the five sub-fields.  br is the set br_patents
\* at line 542; raised says an exception left the scan before that line.
ScanRaises(pd) ==
    \/ WorldwideRaises(pd.worldwide_applications)
    \/ RecordListRaises(pd.family_members)
    \/ AlsoPublishedRaises(pd.also_published_as)
    \/ RecordListRaises(pd.citations)
    \/ RecordListRaises(pd.similar_documents)
ScanBR_worldwideOnly(pd) == WorldwideBR(pd.worldwide_applications)
ScanBR(pd) ==
    WorldwideBR(pd.worldwide_applications)
      \cup RecordListBR(pd.family_members)
      \cup AlsoPublishedBR(pd.also_published_as)
      \cup RecordListBR(pd.citations)
      \cup RecordListBR(pd.similar_documents)

\* the detail records of the model: each sub-field empty (the key is absent
\* or its list is empty), or one of a few contents
WorldwidePool ==
    { List(<<>>),
      List(<< List(<<Doc(BR1A)>>) >>),
      List(<< List(<<Doc(US1)>>), NotAList, List(<<Doc(BR2), DocNoKey>>) >>),
      List(<< List(<<DocNull>>) >>),
      NotAList }
FamilyPool == { List(<<>>), List(<<Doc(BR_1a), Other>>), List(<<Doc(US1)>>), List(<<DocNull>>) }
AlsoPublishedPool == { List(<<>>), List(<<Str(BR2), Str(US1)>>), List(<<Doc(BR1A)>>), NotAList }
CitationsPool == { List(<<>>), List(<<Doc(BR1A), Doc(US1)>>), List(<<DocNoKey>>) }
SimilarPool == { List(<<>>), List(<<Doc(BR2)>>), List(<<Str(BR1A)>>) }
PatentDataPool ==
    [ worldwide_applications : WorldwidePool,
      family_members : FamilyPool,
      also_published_as : AlsoPublishedPool,
      citations : CitationsPool,
      similar_documents : SimilarPool ]

-----------------------------------------------------------------------------
(* extract_br_from_wo, src/main.py:392-553 *)

\* Python's None, where a string may stand instead
PyNone == "<None>"

\* str(e) of a caught exception, line 550
ExcText == "exception message"

\* the WO numbers the model resolves
WoPool == {WO2011051540, WO2016120530}

\* What response.json() of the search response gives, lines 432-441:
\*   "invalid_json": json() raises; "not_object": search_data (or its
\*   search_metadata) is no JSON object, so .get raises; "no_endpoint":
\*   json_endpoint is absent, null or empty; "endpoint": it is there
SearchBodies == {"invalid_json", "not_object", "no_endpoint", "endpoint"}

\* What response.json() of the endpoint response gives, lines 457-476:
\*   "no_organic": organic_results absent or empty; "first_not_object": its
\*   first element is no JSON object; "no_link": serpapi_link absent, null or
\*   empty; "link" / "link_with_key": the link, without / with api_key= in it
EndpointBodies == {"invalid_json", "not_object", "no_organic", "first_not_object",
                   "no_link", "link", "link_with_key"}

\* the bodies on which the code raises before it reads the expected field
RaisingBodies == {"invalid_json", "not_object", "first_not_object"}

\* line 543: "success" if br_patents else "no_br"
FinalStatus_alwaysSuccess(br) == "success"
FinalStatus_onlyWhenFound(br) == IF br # {} THEN "success" ELSE "pending"
FinalStatus(br) == IF br # {} THEN "success" ELSE "no_br"

\* patent_data before line 492: a record with no sub-field
NoPatentData ==
    [ worldwide_applications |-> List(<<>>), family_members |-> List(<<>>),
      also_published_as |-> List(<<>>), citations |-> List(<<>>),
      similar_documents |-> List(<<>>) ]

\* lines 402-407
NewResult == [br_patents |-> {}, status |-> "pending", reason |-> PyNone]

\* `return result` after result["status"] and result["reason"] were set
ExtractReturn(status, reason) ==
    /\ result' = [result EXCEPT !.status = status, !.reason = reason]
    /\ c_pc' = "returned"

\* lines 548-551: except Exception as e
ExtractExcept == ExtractReturn("error", ExcText)

\* the call starts: lines 402-409
ExtractStart(wo) ==
    /\ c_pc = "idle"
    /\ c_pc' = "get_key"
    /\ wo_number' = wo
    /\ result' = NewResult
    /\ c_events' = <<>>
    /\ patent_data' = NoPatentData
    /\ c_calls' = <<>>
    /\ UNCHANGED <<api_key, fetchVars, rotVars>>

\* line 410: api_key = await serpapi_rotator.get_key()
ExtractGetKey ==
    /\ c_pc = "get_key"
    /\ LockFree(lock)
    /\ api_key' = KeyAt(index)
    /\ index' = index + 1
    /\ c_pc' = "hop1_call"
    /\ UNCHANGED <<wo_number, result, patent_data, c_calls, c_events, fetchVars,
                   lock, r_pc, r_key, r_seen, handed, used>>

\* lines 415, 448, 483: await http_get_with_retry(...)
ExtractHopCall(hop) ==
    /\ c_pc = hop \o "_call"
    /\ HttpCall(hop, DefaultMaxRetries)
    /\ c_pc' = hop \o "_wait"
    /\ c_calls' = Append(c_calls, hop)
    /\ UNCHANGED <<wo_number, api_key, result, patent_data, c_events, rotVars>>

\* an exception left http_get_with_retry: lines 548-551
ExtractHopRaised ==
    /\ c_pc \in {"hop1_wait", "hop2_wait", "hop3_wait"}
    /\ f_pc = "raised"
    /\ HttpConsumed
    /\ ExtractExcept
    /\ UNCHANGED <<wo_number, api_key, patent_data, c_calls, c_events, rotVars>>

\* lines 427-430, 452-455, 487-490: the fetch returned None
HopFailedStatus_allSkip(hop) == "skip"
HopFailedStatus(hop) == IF hop = "hop1" THEN "error" ELSE "skip"
HopFailedReason(hop) ==
    CASE hop = "hop1" -> "Search failed"
      [] hop = "hop2" -> "Endpoint fetch failed"
      [] OTHER -> "Details fetch failed"
ExtractHopNone(hop) ==
    /\ c_pc = hop \o "_wait"
    /\ f_pc = "returned" /\ response = "none"
    /\ HttpConsumed
    /\ ExtractReturn(HopFailedStatus(hop), HopFailedReason(hop))
    /\ c_events' = Append(c_events, hop \o "_failed")
    /\ UNCHANGED <<wo_number, api_key, patent_data, c_calls, rotVars>>

\* lines 432-443: the search response is read
ExtractHop1Body(body) ==
    /\ c_pc = "hop1_wait"
    /\ f_pc = "returned" /\ response = "r200"
    /\ HttpConsumed
    /\ CASE body \in RaisingBodies -> ExtractExcept /\ UNCHANGED c_events
         [] body = "no_endpoint" ->
               /\ ExtractReturn("skip", "No json_endpoint")
               /\ c_events' = Append(c_events, "no_endpoint")
         [] OTHER ->
               /\ c_pc' = "sleep1"
               /\ c_events' = Append(c_events, "hop1")
               /\ UNCHANGED result
    /\ UNCHANGED <<wo_number, api_key, patent_data, c_calls, rotVars>>

\* lines 443-448 and 478-483: the fetch that follows each sleep
HopAfterSleep_skipsEndpoint(pc) == "hop3_call"
HopAfterSleep(pc) == IF pc = "sleep1" THEN "hop2_call" ELSE "hop3_call"

\* lines 443 and 478: await asyncio.sleep(0.8)
ExtractSleep ==
    /\ c_pc \in {"sleep1", "sleep2"}
    /\ c_pc' = HopAfterSleep(c_pc)
    /\ UNCHANGED <<wo_number, api_key, patent_data, c_calls, result, c_events, fetchVars, rotVars>>

\* lines 457-478: the endpoint response is read
ExtractHop2Body(body) ==
    /\ c_pc = "hop2_wait"
    /\ f_pc = "returned" /\ response = "r200"
    /\ HttpConsumed
    /\ CASE body \in RaisingBodies -> ExtractExcept /\ UNCHANGED c_events
         [] body = "no_organic" ->
               /\ ExtractReturn("skip", "No organic results")
               /\ c_events' = Append(c_events, "no_organic")
         [] body = "no_link" ->
               /\ ExtractReturn("skip", "No serpapi_link")
               /\ c_events' = Append(c_events, "no_link")
         [] OTHER ->
               /\ c_pc' = "sleep2"
               /\ c_events' = Append(c_events, "hop2")
               /\ UNCHANGED result
    /\ UNCHANGED <<wo_number, api_key, patent_data, c_calls, rotVars>>

\* lines 492 and 548-551: details_response.json() raises, or patent_data is
\* no JSON object and patent_data.get raises
ExtractHop3BadBody ==
    /\ c_pc = "hop3_wait"
    /\ f_pc = "returned" /\ response = "r200"
    /\ HttpConsumed
    /\ ExtractExcept
    /\ UNCHANGED <<wo_number, api_key, patent_data, c_calls, c_events, rotVars>>

\* lines 492-553: the detail record pd is scanned and the call returns
ExtractScan(pd) ==
    /\ c_pc = "hop3_wait"
    /\ f_pc = "returned" /\ response = "r200"
    /\ HttpConsumed
    /\ patent_data' = pd
    /\ IF ScanRaises(pd)
         THEN /\ ExtractExcept
              /\ c_events' = c_events \o <<"hop3", "scan_raised">>
         ELSE /\ result' = [result EXCEPT !.br_patents = ScanBR(pd),
                                          !.status = FinalStatus(ScanBR(pd))]
              /\ c_pc' = "returned"
              /\ c_events' = c_events \o <<"hop3", "scan">>
    /\ UNCHANGED <<wo_number, api_key, c_calls, rotVars>>

InitChain ==
    /\ c_pc = "idle"
    /\ wo_number = <<>>
    /\ api_key = PyNone
    /\ result = NewResult
    /\ patent_data = NoPatentData
    /\ c_calls = <<>>
    /\ c_events = <<>>

-----------------------------------------------------------------------------
(* fetch_pubchem_data, src/main.py:120-160 *)

\* an Optional[str] is a sequence holding the string, empty for None
NoString == <<>>
Some(str) == <<str>>

Digits == {"0", "1", "2", "3", "4", "5", "6", "7", "8", "9"}
IsDigit(c) == c \in Digits
IsLetter(c) == \E i \in 1..26 : LowerLetters[i] = c \/ UpperLetters[i] = c

\* line 140: ^[A-Z]{2,5}[-]?\d{3,7}[A-Z]?$ with re.IGNORECASE
MatchesDev(s) ==
    \E a \in 2..5, h \in 0..1, d \in 3..7, t \in 0..1 :
        /\ Len(s) = a + h + d + t
        /\ \A i \in 1..a : IsLetter(s[i])
        /\ h = 1 => s[a + 1] = "-"
        /\ \A i \in (a + h + 1)..(a + h + d) : IsDigit(s[i])
        /\ t = 1 => IsLetter(s[Len(s)])

\* line 141: ^\d{2,7}-\d{2}-\d$
MatchesCas(s) ==
    \E a \in 2..7 :
        /\ Len(s) = a + 5
        /\ \A i \in 1..a : IsDigit(s[i])
        /\ s[a + 1] = "-" /\ IsDigit(s[a + 2]) /\ IsDigit(s[a + 3])
        /\ s[a + 4] = "-" /\ IsDigit(s[a + 5])

\* lines 124-129
EmptyProfile == [dev_codes |-> <<>>, cas |-> NoString, synonyms |-> <<>>]

\* lines 144-152 for one element syn of the synonym list: an empty string is
\* skipped, pattern.match raises on a syn that is no string
ClassifySynonym(acc, syn) ==
    IF syn.t # "str" THEN [acc EXCEPT !.raised = TRUE]
    ELSE IF syn.v = <<>> THEN acc
    ELSE LET isDev == /\ MatchesDev(syn.v)
                      /\ Len(acc.dev_codes) < 25
                      /\ \A i \in 1..Len(acc.dev_codes) :
                            Upper(acc.dev_codes[i]) # Upper(syn.v)
             isCas == MatchesCas(syn.v) /\ acc.cas = NoString
         IN  [acc EXCEPT !.dev_codes = IF isDev THEN Append(@, syn.v) ELSE @,
                         !.cas = IF isCas THEN Some(syn.v) ELSE @]

RECURSIVE ClassifySynonyms(_, _)
ClassifySynonyms(acc, syns) ==
    IF syns = <<>> \/ acc.raised THEN acc
    ELSE ClassifySynonyms(ClassifySynonym(acc, Head(syns)), Tail(syns))

\* line 154: the strings among the first 150 synonyms with 2 < len < 100
KeptSynonym(syn) == syn.t = "str" /\ Len(syn.v) > 2 /\ Len(syn.v) < 100
KeptSynonyms(syns) ==
    LET kept == SelectSeq(Prefix(syns, 150), KeptSynonym)
    IN  [i \in 1..Len(kept) |-> kept[i].v]

\* lines 135-160 on the JSON body of a 200 response, the synonym list it
\* holds or a value the chain of .get and [0] of line 137 raises on: what
\* fetch_pubchem_data returns.  An exception is caught at line 157 and the
\* result dict is returned as it stands.
PubchemRaises(payload) ==
    \/ ~ payload.isList
    \/ ClassifySynonyms([dev_codes |-> <<>>, cas |-> NoString, raised |-> FALSE],
                        payload.items).raised
PubchemResult(payload) ==
    IF ~ payload.isList THEN EmptyProfile
    ELSE LET acc == ClassifySynonyms([dev_codes |-> <<>>, cas |-> NoString,
                                      raised |-> FALSE], payload.items)
         IN  [dev_codes |-> acc.dev_codes,
              cas |-> acc.cas,
              synonyms |-> IF acc.raised THEN <<>> ELSE KeptSynonyms(payload.items)]

\* the molecule name of the model and strings PubChem lists for it
Olapib == <<"o", "l", "a", "p", "i", "b">>
AB_123 == <<"A", "B", "-", "1", "2", "3">>
AB123 == <<"A", "B", "1", "2", "3">>
Cas12345 == <<"1", "2", "-", "3", "4", "-", "5">>
Lynparza == <<"L", "y", "n", "p", "a", "r", "z", "a">>

\* the bodies PubChem answers with: malformed, no synonyms, synonyms with the
\* name itself, a dev code written with and without its hyphen and a CAS
\* number, and a list with a number after a dev code
PubchemPayloads ==
    { NotAList,
      List(<<>>),
      List(<<Str(Olapib), Str(AB_123), Str(Cas12345), Str(Lynparza), Str(<<>>), Str(AB123)>>),
      List(<<Str(AB_123), Other, Str(Lynparza)>>) }

-----------------------------------------------------------------------------
(* discover_wo_numbers, src/main.py:269-386: the query list *)

\* A query f'"{subject}" {rest}' is the record of its parts; strategy names
\* the block of lines 286-347 that built it.
Query(strategy, subject, rest) == [strategy |-> strategy, subject |-> subject, rest |-> rest]

\* lines 289-290
Years == <<"2006", "2008", "2010", "2011", "2012", "2014", "2015", "2016",
           "2017", "2018", "2019", "2020", "2021", "2022", "2023", "2024">>

\* lines 297-302
PharmaCompanies ==
    <<"Orion Corporation", "Orion Pharma", "Bayer", "Bayer Pharma AG",
      "AstraZeneca", "Pfizer", "Novartis", "Roche", "Merck",
      "Bristol-Myers Squibb", "Johnson & Johnson", "Eli Lilly",
      "Sanofi", "GlaxoSmithKline", "AbbVie", "Takeda", "Gilead">>

\* lines 291-292
YearQueries(mol) ==
    [i \in 1..Len(Years) |-> Query("year_based", mol, "patent WO" \o Years[i])]

\* lines 303-304
CompanyQueries(mol) ==
    [i \in 1..Len(PharmaCompanies) |->
        Query("company_based", mol, PharmaCompanies[i] \o " patent")]

\* lines 309-315
RECURSIVE DevQueries(_)
DevQueries(devs) ==
    IF devs = <<>> THEN <<>>
    ELSE LET dev == Head(devs)
             dev_no_hyphen == RemoveChar(dev, "-")
         IN  << Query("dev_code", dev, "patent WO"),
                Query("dev_code", dev, "international patent application") >>
               \o (IF dev_no_hyphen # dev
                     THEN << Query("dev_code_variant", dev_no_hyphen, "patent WO") >>
                     ELSE <<>>)
               \o DevQueries(Tail(devs))

\* lines 320-322: `if cas`
CasQueries(cas) ==
    IF cas # NoString /\ cas[1] # <<>>
      THEN << Query("cas_number", cas[1], "patent WO"),
              Query("cas_number", cas[1], "PCT patent") >>
      ELSE <<>>

\* lines 327-329: `if trade`
BrandQueries(trade) ==
    IF trade # NoString /\ trade[1] # <<>>
      THEN << Query("brand_name", trade[1], "patent WO"),
              Query("brand_name", trade[1], "pharmaceutical patent international") >>
      ELSE <<>>

\* lines 334-340
DirectQueries(mol) ==
    << Query("direct_molecule", mol, "WO patent application"),
       Query("direct_molecule", mol, "PCT international application"),
       Query("direct_molecule", mol, "WIPO patent"),
       Query("direct_molecule", mol, "site:patents.google.com WO"),
       Query("direct_molecule", mol, "site:patentscope.wipo.int"),
       Query("direct_molecule", mol, "pharmaceutical composition patent WO"),
       Query("direct_molecule", mol, "treatment method patent WO") >>

\* lines 345-347
SynonymQueried(syn) == Len(syn) > 5 /\ Len(syn) < 50
SynonymQueries(synonyms) ==
    LET kept == SelectSeq(Prefix(synonyms, 5), SynonymQueried)
    IN  [i \in 1..Len(kept) |-> Query("synonym", kept[i], "patent WO")]

\* lines 284-347: queries
BuildQueries(mol, trade, dev_codes, cas, synonyms) ==
    YearQueries(mol) \o CompanyQueries(mol)
      \o DevQueries(Prefix(dev_codes, 10)) \o CasQueries(cas) \o BrandQueries(trade)
      \o DirectQueries(mol) \o SynonymQueries(synonyms)

\* lines 355-358: the engine of the query at 0-based position i
EngineAt_byStrategy(i) ==
    IF BuildQueries(molecule, brand, pubchem_data.dev_codes, pubchem_data.cas,
                    pubchem_data.synonyms)[i + 1].strategy = "year_based"
      THEN "google_patents" ELSE "google"
EngineAt(i) == IF i % 3 = 0 THEN "google_patents" ELSE "google"

\* the value of a string of digits; x[2:6] of two WO numbers compare as these
RECURSIVE DigitsValue(_)
DigitsValue(s) ==
    IF s = <<>> THEN 0
    ELSE 10 * DigitsValue(SubSeq(s, 1, Len(s) - 1))
           + (CHOOSE d \in 0..9 : <<"0", "1", "2", "3", "4", "5", "6", "7", "8", "9">>[d + 1] = s[Len(s)])
YearKey(wo) == DigitsValue(SubSeq(wo, 3, 6))

\* line 381: sorted(list(all_wo_numbers), key=lambda x: x[2:6], reverse=True);
\* the sort is stable and list(set) is in any order, so equal years come in
\* any order
SortedByYear(S) ==
    { f \in Orders(S) : \A i, j \in 1..Cardinality(S) : i < j => YearKey(f[i]) >= YearKey(f[j]) }

-----------------------------------------------------------------------------
(* extract_wo_numbers_from_text, src/main.py:166-219 *)

\* the literals of the patterns of lines 175-180
LitWO == <<"W", "O">>
LitPublication == <<"p", "u", "b", "l", "i", "c", "a", "t", "i", "o", "n">>
LitPatent == <<"p", "a", "t", "e", "n", "t">>

\* the character at position i of text, "" past its end
CharAt(text, i) == IF i >= 1 /\ i <= Len(text) THEN text[i] ELSE ""

\* re.IGNORECASE: the literal lit is at position i of text, in any case
LitAt(text, i, lit) ==
    /\ i + Len(lit) - 1 <= Len(text)
    /\ Upper(SubSeq(text, i, i + Len(lit) - 1)) = Upper(lit)

\* how many \d follow one another from position i of text on
RECURSIVE DigitRun(_, _)
DigitRun(text, i) ==
    IF IsDigit(CharAt(text, i)) THEN 1 + DigitRun(text, i + 1) ELSE 0

\* how many [:\s] follow one another from position i of text on
RECURSIVE LabelGap(_, _)
LabelGap(text, i) ==
    IF CharAt(text, i) \in {":", " "} THEN 1 + LabelGap(text, i + 1) ELSE 0

\* the classes [\s\-] and [\s/\-]
IsYearSep(c) == c \in {" ", "-"}
IsSerialSep(c) == c \in {" ", "/", "-"}

NoMatch == [ok |-> FALSE, end |-> 0, groups |-> <<>>]

\* lines 175-177: WO[\s\-]?(\d{n})[\s/\-]?(\d{6}) tried at position i, with
\* the two optional separators (seps) or without them; a separator that is
\* there is consumed, since no \d matches it
MatchYearSerial(text, i, n, seps) ==
    LET a == IF seps /\ IsYearSep(CharAt(text, i + 2)) THEN i + 3 ELSE i + 2
        b == a + n
        c == IF seps /\ IsSerialSep(CharAt(text, b)) THEN b + 1 ELSE b
    IN  IF LitAt(text, i, LitWO) /\ DigitRun(text, a) >= n /\ DigitRun(text, c) >= 6
          THEN [ok |-> TRUE, end |-> c + 6,
                groups |-> << SubSeq(text, a, b - 1), SubSeq(text, c, c + 5) >>]
          ELSE NoMatch

\* line 178: WO(\d{10,14}), greedy
MatchLongNumber(text, i) ==
    LET run == DigitRun(text, i + 2)
        k == IF run > 14 THEN 14 ELSE run
    IN  IF LitAt(text, i, LitWO) /\ k >= 10
          THEN [ok |-> TRUE, end |-> i + 2 + k,
                groups |-> << SubSeq(text, i + 2, i + 1 + k) >>]
          ELSE NoMatch

\* lines 179-180: label[:\s]*(WO\d+), greedy
MatchLabelled(text, i, label) ==
    LET w == i + Len(label) + LabelGap(text, i + Len(label))
        run == DigitRun(text, w + 2)
    IN  IF LitAt(text, i, label) /\ LitAt(text, w, LitWO) /\ run >= 1
          THEN [ok |-> TRUE, end |-> w + 2 + run,
                groups |-> << SubSeq(text, w, w + 1 + run) >>]
          ELSE NoMatch

\* the six patterns of lines 174-181, by their position in the list
Patterns == 1..6
MatchAt(p, text, i) ==
    CASE p = 1 -> MatchYearSerial(text, i, 4, TRUE)
      [] p = 2 -> MatchYearSerial(text, i, 4, FALSE)
      [] p = 3 -> MatchYearSerial(text, i, 2, TRUE)
      [] p = 4 -> MatchLongNumber(text, i)
      [] p = 5 -> MatchLabelled(text, i, LitPublication)
      [] OTHER -> MatchLabelled(text, i, LitPatent)

\* line 184: re.finditer -- the groups of the matches found from position i
\* on, left to right, each search starting where the last match ended
RECURSIVE FindIter(_, _, _)
FindIter(p, text, i) ==
    IF i > Len(text) THEN <<>>
    ELSE LET m == MatchAt(p, text, i) IN
           IF m.ok THEN <<m.groups>> \o FindIter(p, text, m.end)
           ELSE FindIter(p, text, i + 1)

\* lines 188-204: the string wo built from the groups of one match
WoOfGroups(groups) ==
    LET built ==
          IF Len(groups) = 2
            THEN LET year == IF Len(groups[1]) = 2
                               THEN (IF DigitsValue(groups[1]) < 50
                                       THEN <<"2", "0">> ELSE <<"1", "9">>) \o groups[1]
                               ELSE groups[1]
                 IN  LitWO \o year \o groups[2]
            ELSE LET raw == Upper(groups[1])
                 IN  IF Len(raw) >= 2 /\ SubSeq(raw, 1, 2) = LitWO
                       THEN raw ELSE LitWO \o raw
    IN  RemoveChar(RemoveChar(RemoveChar(Upper(built), " "), "-"), "/")

\* lines 207-209: re.match(r'(WO\d{10})', wo), no string when it fails
CoreWo(wo) ==
    IF Len(wo) >= 2 /\ SubSeq(wo, 1, 2) = LitWO /\ DigitRun(wo, 3) >= 10
      THEN Some(SubSeq(wo, 1, 12)) ELSE NoString

\* lines 213-214
ValidYear_noUpperBound(wo_normalized) == 1990 <= YearKey(wo_normalized)
ValidYear(wo_normalized) == 1990 <= YearKey(wo_normalized) /\ YearKey(wo_normalized) <= 2025

\* lines 183-217 for one pattern: what its matches add to wo_numbers
WoNumbersOfPattern(p, text) ==
    LET matches == FindIter(p, text, 1)
        cores == { CoreWo(WoOfGroups(matches[k])) : k \in 1..Len(matches) }
    IN  { c[1] : c \in { d \in cores : d # NoString /\ ValidYear(d[1]) } }

\* lines 168-219: the set the function returns
ExtractWoNumbersFromText(text) ==
    IF text = <<>> THEN {}
    ELSE UNION { WoNumbersOfPattern(p, text) : p \in Patterns }

\* the call starts with its argument
WoCall(text) ==
    /\ x_pc = "idle"
    /\ x_pc' = "called"
    /\ x_text' = text
    /\ UNCHANGED <<x_wo_numbers, fetchVars, rotVars, chainVars, searchVars, taskVars>>

\* lines 168-219: return wo_numbers
WoReturn ==
    /\ x_pc = "called"
    /\ x_pc' = "returned"
    /\ x_wo_numbers' = ExtractWoNumbersFromText(x_text)
    /\ UNCHANGED <<x_text, fetchVars, rotVars, chainVars, searchVars, taskVars>>

InitExtractWo ==
    /\ x_pc = "idle"
    /\ x_text = <<>>
    /\ x_wo_numbers = {}

-----------------------------------------------------------------------------
(* search_inpi_direct, src/main.py:559-624 *)

\* lines 574-578: each dev code, and its hyphen-less form when that differs
RECURSIVE DevTerms(_)
DevTerms(devs) ==
    IF devs = <<>> THEN <<>>
    ELSE LET dev == Head(devs)
             dev_no_hyphen == RemoveChar(dev, "-")
         IN  (IF dev_no_hyphen # dev THEN <<dev, dev_no_hyphen>> ELSE <<dev>>)
               \o DevTerms(Tail(devs))

\* lines 581-587: the Portuguese variation of the molecule name
PortugueseTerms(mol) ==
    LET mol_lower == Lower(mol) IN
      IF EndsWith(mol_lower, <<"i", "d", "e">>) \/ EndsWith(mol_lower, <<"i", "n", "e">>)
        THEN << SubSeq(mol, 1, Len(mol) - 1) \o <<"a">> >>
      ELSE IF EndsWith(mol_lower, <<"i", "b">>)
        THEN << mol \o <<"e">> >>
      ELSE <<>>

\* lines 571-587: search_terms
SearchTerms(mol, dev_codes) ==
    <<mol>> \o DevTerms(Prefix(dev_codes, 12)) \o PortugueseTerms(mol)

\* the local br_patents and seen_numbers, lines 567-568; raised is set while
\* one body is read, when an exception leaves the try block
NoInpi == [br_patents |-> <<>>, seen_numbers |-> {}, raised |-> FALSE]

\* lines 600-616 for one element p of data["data"]: p.get raises on a p that
\* is no dict, title.startswith raises on a null title
InpiPatent(acc, p) ==
    IF p.t \in {"str", "other", "dict_null"} THEN [acc EXCEPT !.raised = TRUE]
    ELSE IF p.t = "dict" /\ StartsWithBR(p.v) THEN
        LET patent_num == SpacesToHyphens(p.v)
            norm_num == Norm(patent_num)
        IN  IF norm_num \notin acc.seen_numbers
              THEN [acc EXCEPT !.seen_numbers = @ \cup {norm_num},
                               !.br_patents = Append(@, [number |-> patent_num,
                                                         source |-> "inpi_direct"])]
              ELSE acc
    ELSE acc

\* lines 598-616: the loop over data.get("data", []), left at the first raise
RECURSIVE InpiPatents(_, _)
InpiPatents(acc, items) ==
    IF items = <<>> \/ acc.raised THEN acc
    ELSE InpiPatents(InpiPatent(acc, Head(items)), Tail(items))

\* lines 597-616 for the JSON body of one term's response; raised says the
\* term's try block was left by an exception
InpiBody(acc, data) ==
    IF ~ data.isList THEN [acc EXCEPT !.raised = TRUE]
    ELSE InpiPatents([acc EXCEPT !.raised = FALSE], data.items)

\* titles the crawler of the model answers with
T_BR_1A == <<"B", "R", " ", "1", "A">>
T_BR3 == <<"B", "R", "3">>
T_PI1 == <<"P", "I", "1">>

\* the "data" of the crawler's answers: no patents, patents, a patent with a
\* null title after a good one, and a body that is no list of patents
InpiDataPool ==
    { List(<<>>),
      List(<<Doc(T_BR_1A), Doc(T_PI1), DocNoKey, Doc(BR2)>>),
      List(<<Doc(T_BR3), DocNull, Doc(BR2)>>),
      NotAList }

-----------------------------------------------------------------------------
(* Consolidation in search_patents, src/main.py:702-727 *)

\* all_br_patents and seen_br, lines 702-703
NoneConsolidated == [all_br_patents |-> <<>>, seen_br |-> {}]

\* lines 707-714 and 718-727: a number is added unless its norm was seen
AddIfNew_neverSeen(acc, number, source) ==
    [acc EXCEPT !.all_br_patents = Append(@, [number |-> number, source |-> source])]
AddIfNew(acc, number, source) ==
    LET norm == Norm(number) IN
      IF norm \notin acc.seen_br
        THEN [all_br_patents |-> Append(acc.all_br_patents,
                                        [number |-> number, source |-> source]),
              seen_br |-> acc.seen_br \cup {norm}]
        ELSE acc

RECURSIVE AddAll(_, _, _)
AddAll(acc, numbers, source) ==
    IF numbers = <<>> THEN acc
    ELSE AddAll(AddIfNew(acc, Head(numbers), source), Tail(numbers), source)

\* p["number"] of each p of inpi_patents
Numbers(patents) == [i \in 1..Len(patents) |-> patents[i].number]

\* lines 702-727, with the loop over the set all_br_from_wo visiting it in
\* the order from_wo
Consolidate_inpiFirst(from_wo, inpi_patents) ==
    AddAll(AddAll(NoneConsolidated, Numbers(inpi_patents), "inpi_direct"),
           from_wo, "wo_extraction")
Consolidate(from_wo, inpi_patents) ==
    AddAll(AddAll(NoneConsolidated, from_wo, "wo_extraction"),
           Numbers(inpi_patents), "inpi_direct")

-----------------------------------------------------------------------------
(* search_patents, src/main.py:630-825, with fetch_pubchem_data,           *)
(* discover_wo_numbers, google_search / google_patents_search and          *)
(* search_inpi_direct as the request runs through them                     *)

\* the count of the elements of a list that satisfy a status test
CountStatus_distinctStatuses(results, statuses) ==
    Cardinality({results[k].status : k \in 1..Len(results)} \cap statuses)
CountStatus(results, statuses) ==
    Cardinality({k \in 1..Len(results) : results[k].status \in statuses})

\* lines 735-737 and 746-821: the counts of the response dict
BuildReport(wos, results, from_wo, inpi_patents, all_br_patents) ==
    [ total_found |-> Len(wos),
      total_processed |-> Len(results),
      successful |-> CountStatus(results, {"success"}),
      no_br_patents |-> CountStatus(results, {"no_br"}),
      skipped_or_error |-> CountStatus(results, {"skip", "error"}),
      total |-> Len(all_br_patents),
      from_wo_extraction |-> Cardinality(from_wo),
      from_inpi_direct |->
          Cardinality({k \in 1..Len(all_br_patents) :
                          all_br_patents[k].source = "inpi_direct"}),
      inpi_total |-> Len(inpi_patents) ]

NoReport == BuildReport(<<>>, <<>>, {}, <<>>, <<>>)

\* the request bodies of the model: nome_molecula missing (no string), empty,
\* blank, a name, a name with blanks around it; nome_comercial likewise
NameInputs ==
    { NoString, Some(<<>>), Some(<<" ", " ">>), Some(Olapib), Some(<<" ">> \o Olapib \o <<" ">>) }
CommercialInputs == { NoString, Some(<<>>), Some(Lynparza) }

\* a `for` loop over the list seq (lines 353, 680, 591) is left when the i
\* elements it has taken are all of them
ForDone_anyTime(i, seq) == i <= Len(seq)
ForDone(i, seq) == i = Len(seq)

\* lines 68-70 and 646-647: the request model is validated (nome_molecula is
\* a required str, any str passes) and the handler strips the two names
SearchRequest(name, commercial) ==
    /\ p_pc = "idle"
    /\ IF name = NoString
         THEN /\ p_pc' = "rejected"
              /\ UNCHANGED <<extractVars, taskVars, molecule, brand>>
         ELSE /\ p_pc' = "pubchem_call"
              /\ molecule' = Strip(name[1])
              /\ brand' = (IF commercial # NoString /\ commercial[1] # <<>>
                             THEN Some(Strip(commercial[1])) ELSE NoString)
    /\ UNCHANGED <<extractVars, taskVars, pubchem_data, pubchem_failed, discoveryVars, resolutionVars, inpiVars, outputVars,
                   fetchVars, rotVars, chainVars>>

\* lines 656 and 132: fetch_pubchem_data awaits http_get_with_retry
PubchemCall ==
    /\ p_pc = "pubchem_call"
    /\ HttpCall("pubchem", DefaultMaxRetries)
    /\ p_pc' = "pubchem_wait"
    /\ UNCHANGED <<extractVars, taskVars, inputVars, discoveryVars, resolutionVars, inpiVars, outputVars,
                   rotVars, chainVars>>

\* lines 134-160 and 657-659: None or an exception give the empty profile, the
\* body of a 200 response is read
PubchemReturn ==
    /\ p_pc = "pubchem_wait"
    /\ f_pc \in {"returned", "raised"}
    /\ IF f_pc = "returned" /\ response = "r200"
         THEN \E payload \in PubchemPayloads :
                /\ pubchem_data' = PubchemResult(payload)
                /\ pubchem_failed' = PubchemRaises(payload)
         ELSE pubchem_data' = EmptyProfile /\ pubchem_failed' = TRUE
    /\ HttpConsumed
    /\ p_pc' = "discover"
    /\ UNCHANGED <<extractVars, taskVars, molecule, brand, discoveryVars, resolutionVars, inpiVars, outputVars,
                   rotVars, chainVars>>

\* the list queries of the request, lines 284-347
Queries ==
    BuildQueries(molecule, brand, pubchem_data.dev_codes, pubchem_data.cas,
                 pubchem_data.synonyms)

\* lines 353-358 and 227, 247: the next query is handed to its engine, which
\* takes a key from the rotator
DiscoverGetKey ==
    /\ p_pc = "discover"
    /\ q_i < Len(Queries)
    /\ LockFree(lock)
    /\ index' = index + 1
    /\ p_pc' = "query_call"
    /\ q_log' = Append(q_log, q_i)
    /\ q_paused' = FALSE
    /\ q_outcome' = ""
    /\ UNCHANGED <<extractVars, taskVars, inputVars, q_i, all_wo_numbers, wo_numbers, q_found,
                   resolutionVars, inpiVars, outputVars,
                   fetchVars, chainVars, lock, r_pc, r_key, r_seen, handed, used>>

\* lines 237 and 257: await http_get_with_retry
QueryCall ==
    /\ p_pc = "query_call"
    /\ HttpCall(EngineAt(q_i), DefaultMaxRetries)
    /\ p_pc' = "query_wait"
    /\ UNCHANGED <<extractVars, taskVars, inputVars, discoveryVars, resolutionVars, inpiVars, outputVars,
                   rotVars, chainVars>>

\* What response.json() of a discovery query gives: "invalid_json": json()
\* raises; "not_object": a JSON value without .get; "bad_result": an element
\* of organic_results without .get; "organic": results in whose text the WO
\* numbers found are read
DiscoveryBodies ==
    { [kind |-> k, found |-> {}] : k \in {"invalid_json", "not_object", "bad_result"} }
      \cup { [kind |-> "organic", found |-> S] : S \in SUBSET WoPool }

\* How a query can end: the fetch gave None ("none"), the fetch raised
\* ("raised"), or a 200 response with a body of one of the four kinds.  The
\* first three make the engine return {} (lines 240-243, 260-263).
EngineFailures == {"none", "raised", "invalid_json"}

\* lines 361-378: result.get and r.get of the loop body are outside any try,
\* so a body they raise on ends the request; otherwise line 378 is next
AfterQuery_abortsOnFailure(outcome) ==
    IF outcome = "organic" THEN "query_sleep" ELSE "failed"
AfterQuery_noPauseOnFailure(outcome) ==
    CASE outcome \in {"not_object", "bad_result"} -> "failed"
      [] outcome = "organic" -> "query_sleep"
      [] OTHER -> "discover"
AfterQuery(outcome) ==
    IF outcome \in {"not_object", "bad_result"} THEN "failed" ELSE "query_sleep"

\* lines 372-374: the WO numbers found go into all_wo_numbers
AddFound(all, found) == all \cup found

\* lines 236-243 (256-263) and 361-375: the engine returns, the loop body
\* reads its result
QueryReturn ==
    /\ p_pc = "query_wait"
    /\ f_pc \in {"returned", "raised"}
    /\ \E body \in DiscoveryBodies :
          LET outcome == CASE f_pc = "raised" -> "raised"
                           [] response = "none" -> "none"
                           [] OTHER -> body.kind
              found == IF outcome = "organic" THEN body.found ELSE {}
          IN  /\ q_outcome' = outcome
              /\ p_pc' = AfterQuery(outcome)
              /\ all_wo_numbers' = AddFound(all_wo_numbers, found)
              /\ q_found' = q_found \cup found
    /\ HttpConsumed
    /\ UNCHANGED <<extractVars, taskVars, inputVars, q_i, wo_numbers, q_log, q_paused,
                   resolutionVars, inpiVars, outputVars, rotVars, chainVars>>

\* line 378: await asyncio.sleep(0.4), and the loop goes on
QuerySleep ==
    /\ p_pc = "query_sleep"
    /\ q_i' = q_i + 1
    /\ q_paused' = TRUE
    /\ p_pc' = "discover"
    /\ UNCHANGED <<extractVars, taskVars, inputVars, all_wo_numbers, wo_numbers, q_outcome, q_log, q_found,
                   resolutionVars, inpiVars, outputVars, fetchVars, rotVars, chainVars>>

\* lines 381-386 and 668: the loop is over, wo_list is returned
DiscoverReturn ==
    /\ p_pc = "discover"
    /\ ForDone(q_i, Queries)
    /\ \E wo_list \in SortedByYear(all_wo_numbers) : wo_numbers' = wo_list
    /\ p_pc' = "resolve"
    /\ q_outcome' = ""
    /\ UNCHANGED <<extractVars, taskVars, inputVars, q_i, all_wo_numbers, q_log, q_found,
                   q_paused, resolutionVars, inpiVars, outputVars,
                   fetchVars, rotVars, chainVars>>

\* lines 680-681: the next WO number is handed to extract_br_from_wo
ResolveStart ==
    /\ p_pc = "resolve"
    /\ wo_i < Len(wo_numbers)
    /\ ExtractStart(wo_numbers[wo_i + 1])
    /\ p_pc' = "extracting"
    /\ UNCHANGED <<extractVars, taskVars, inputVars, discoveryVars, resolutionVars, inpiVars, outputVars>>

\* lines 682-685: the call returned; its result is appended and its
\* br_patents go into all_br_from_wo
ResolveCollect ==
    /\ p_pc = "extracting"
    /\ c_pc = "returned"
    /\ wo_results' = Append(wo_results, [wo_number |-> wo_number,
                                         br_patents |-> result.br_patents,
                                         status |-> result.status,
                                         reason |-> result.reason])
    /\ all_br_from_wo' = all_br_from_wo \cup result.br_patents
    /\ c_pc' = "idle"
    /\ wo_number' = <<>>
    /\ api_key' = PyNone
    /\ result' = NewResult
    /\ patent_data' = NoPatentData
    /\ c_calls' = <<>>
    /\ c_events' = <<>>
    /\ p_pc' = "wo_sleep"
    /\ UNCHANGED <<extractVars, taskVars, inputVars, discoveryVars, wo_i, inpiVars, outputVars, fetchVars, rotVars>>

\* line 688: await asyncio.sleep(1.5), and the loop goes on
ResolveSleep ==
    /\ p_pc = "wo_sleep"
    /\ wo_i' = wo_i + 1
    /\ p_pc' = "resolve"
    /\ UNCHANGED <<extractVars, taskVars, inputVars, discoveryVars, wo_results, all_br_from_wo, inpiVars,
                   outputVars, fetchVars, rotVars, chainVars>>

\* line 697: the loop is over, search_inpi_direct is called
ResolveDone ==
    /\ p_pc = "resolve"
    /\ ForDone(wo_i, wo_numbers)
    /\ p_pc' = "inpi"
    /\ UNCHANGED <<extractVars, taskVars, inputVars, discoveryVars, resolutionVars, inpiVars, outputVars,
                   fetchVars, rotVars, chainVars>>

\* the list search_terms of the request, lines 571-587
Terms == SearchTerms(molecule, pubchem_data.dev_codes)

\* lines 591-594: the next term is sent to the crawler
InpiCall ==
    /\ p_pc = "inpi"
    /\ term_i < Len(Terms)
    /\ HttpCall("inpi", DefaultMaxRetries)
    /\ p_pc' = "inpi_wait"
    /\ t_paused' = FALSE
    /\ t_sent' = Append(t_sent, Terms[term_i + 1])
    /\ UNCHANGED <<extractVars, taskVars, inputVars, discoveryVars, resolutionVars, term_i, inpi, outputVars,
                   rotVars, chainVars>>

\* What response.json() of the crawler gives: json() raises, or a body whose
\* "data" is one of InpiDataPool
InpiBodies == {[valid |-> FALSE, data |-> NotAList]}
                 \cup {[valid |-> TRUE, data |-> d] : d \in InpiDataPool}

\* lines 596-621 for one term: None skips the body; an exception (from the
\* fetch, json() or the loop) leaves the try block for line 620, past the
\* sleep of line 618, and the loop goes on with the next term
InpiReturn ==
    /\ p_pc = "inpi_wait"
    /\ f_pc \in {"returned", "raised"}
    /\ \E body \in InpiBodies :
          LET after == CASE f_pc = "raised" -> [inpi EXCEPT !.raised = TRUE]
                         [] response = "none" -> inpi
                         [] ~ body.valid -> [inpi EXCEPT !.raised = TRUE]
                         [] OTHER -> InpiBody(inpi, body.data)
          IN  /\ inpi' = [after EXCEPT !.raised = FALSE]
              /\ IF after.raised
                   THEN p_pc' = "inpi" /\ term_i' = term_i + 1
                   ELSE p_pc' = "inpi_sleep" /\ term_i' = term_i
    /\ HttpConsumed
    /\ UNCHANGED <<extractVars, taskVars, inputVars, discoveryVars, resolutionVars, t_paused, t_sent, outputVars,
                   rotVars, chainVars>>

\* line 618: await asyncio.sleep(2), and the loop goes on
InpiSleep ==
    /\ p_pc = "inpi_sleep"
    /\ term_i' = term_i + 1
    /\ t_paused' = TRUE
    /\ p_pc' = "inpi"
    /\ UNCHANGED <<extractVars, taskVars, inputVars, discoveryVars, resolutionVars, inpi, t_sent, outputVars,
                   fetchVars, rotVars, chainVars>>

\* lines 624, 697 and 702-825: search_inpi_direct returns br_patents, the two
\* sources are consolidated and the response is built and returned
SearchRespond ==
    /\ p_pc = "inpi"
    /\ ForDone(term_i, Terms)
    /\ \E from_wo \in Orders(all_br_from_wo) :
          consolidated' = Consolidate(from_wo, inpi.br_patents)
    /\ report' = BuildReport(wo_numbers, wo_results, all_br_from_wo, inpi.br_patents,
                             consolidated'.all_br_patents)
    /\ p_pc' = "responded"
    /\ UNCHANGED <<extractVars, taskVars, inputVars, discoveryVars, resolutionVars, inpiVars,
                   fetchVars, rotVars, chainVars>>

InitSearch ==
    /\ p_pc = "idle"
    /\ molecule = <<>>
    /\ brand = NoString
    /\ pubchem_data = EmptyProfile
    /\ pubchem_failed = FALSE
    /\ q_i = 0
    /\ all_wo_numbers = {}
    /\ wo_numbers = <<>>
    /\ q_outcome = ""
    /\ q_log = <<>>
    /\ q_found = {}
    /\ q_paused = FALSE
    /\ wo_i = 0
    /\ wo_results = <<>>
    /\ all_br_from_wo = {}
    /\ term_i = 0
    /\ inpi = NoInpi
    /\ t_paused = FALSE
    /\ t_sent = <<>>
    /\ consolidated = NoneConsolidated
    /\ report = NoReport

-----------------------------------------------------------------------------
(* The awaits of one request, src/main.py:630-825 with the coroutines it     *)
(* calls: every outbound call and every pause is `await`ed where it is made. *)

Requests == 1..NumRequests

\* a place where the coroutine awaits: an outbound call (through
\* http_get_with_retry) or asyncio.sleep
CallSite(name) == [call |-> TRUE, name |-> name]
SleepSite(name) == [call |-> FALSE, name |-> name]

\* lines 353-378: the loop body awaits the engine of position i, then line 378
RECURSIVE QuerySites(_, _)
QuerySites(i, n) ==
    IF i >= n THEN <<>>
    ELSE <<CallSite(EngineAt(i)), SleepSite("sleep_378")>> \o QuerySites(i + 1, n)

\* lines 415, 443, 448, 478, 483 of extract_br_from_wo, then line 688
ChainSites ==
    << CallSite("hop1"), SleepSite("sleep_443"), CallSite("hop2"),
       SleepSite("sleep_478"), CallSite("hop3"), SleepSite("sleep_688") >>

\* lines 594 and 618
TermSites == << CallSite("inpi"), SleepSite("sleep_618") >>

RECURSIVE Repeat(_, _)
Repeat(seq, n) == IF n = 0 THEN <<>> ELSE seq \o Repeat(seq, n - 1)

\* the awaits a request passes when nothing fails, in program order: line 132
\* (from 656), the loop of 353, the loop of 680, the loop of 591
AwaitSites ==
    <<CallSite("pubchem")>> \o QuerySites(0, PlanQueries)
      \o Repeat(ChainSites, PlanWos) \o Repeat(TermSites, PlanTerms)

\* the request has returned or was ended by an exception
TaskOver == Len(AwaitSites) + 1

\* how a call can end: a 200 response that is read, None, an exception of the
\* fetch, a 200 response whose body makes the code reading it raise
CallOutcomes == {"ok", "none", "raised", "malformed"}

\* Where the coroutine goes on once the call at pos is over.  A hop that
\* fails returns from extract_br_from_wo (lines 427-490, 548-551) to line
\* 688; an exception in the try block of search_inpi_direct skips line 618;
\* an engine returns {} on None and on an exception (240-243), and a body
\* lines 361-368 raise on ends the request; fetch_pubchem_data catches all.
AfterCall(pos, o) ==
    LET name == AwaitSites[pos].name IN
      CASE name \in {"hop1", "hop2", "hop3"} /\ o # "ok" ->
              CHOOSE q \in pos..Len(AwaitSites) :
                  /\ AwaitSites[q].name = "sleep_688"
                  /\ \A m \in pos..(q - 1) : AwaitSites[m].name # "sleep_688"
        [] name = "inpi" /\ o \in {"raised", "malformed"} -> pos + 2
        [] name \in {"google", "google_patents"} /\ o = "malformed" -> TaskOver
        [] OTHER -> pos + 1

\* every call of the program is written `await f(...)`: the coroutine that
\* makes it is suspended until it is over
Suspends_gatherQueries(site) == site.name \notin {"google", "google_patents"}
Suspends(site) == site.call

\* the event loop starts the handler of a request that arrived
TaskArrive(r) ==
    /\ task_pos[r] = 0
    /\ task_pos' = [task_pos EXCEPT ![r] = 1]
    /\ UNCHANGED <<task_waiting, task_calls>>

\* the coroutine of r runs up to its next outbound call and makes it
TaskCall(r) ==
    /\ task_pos[r] \in 1..Len(AwaitSites)
    /\ ~ task_waiting[r]
    /\ AwaitSites[task_pos[r]].call
    /\ task_calls' = [task_calls EXCEPT ![r] = @ \cup {task_pos[r]}]
    /\ IF Suspends(AwaitSites[task_pos[r]])
         THEN task_waiting' = [task_waiting EXCEPT ![r] = TRUE] /\ UNCHANGED task_pos
         ELSE task_pos' = [task_pos EXCEPT ![r] = @ + 1] /\ UNCHANGED task_waiting

\* a call of r is over; the coroutine awaiting it goes on
TaskCallOver(r, pos, o) ==
    /\ pos \in task_calls[r]
    /\ task_calls' = [task_calls EXCEPT ![r] = @ \ {pos}]
    /\ IF task_waiting[r] /\ task_pos[r] = pos
         THEN /\ task_waiting' = [task_waiting EXCEPT ![r] = FALSE]
              /\ task_pos' = [task_pos EXCEPT ![r] = AfterCall(pos, o)]
         ELSE UNCHANGED <<task_pos, task_waiting>>

\* await asyncio.sleep(...) of r is over
TaskSleep(r) ==
    /\ task_pos[r] \in 1..Len(AwaitSites)
    /\ ~ task_waiting[r]
    /\ ~ AwaitSites[task_pos[r]].call
    /\ task_pos' = [task_pos EXCEPT ![r] = @ + 1]
    /\ UNCHANGED <<task_waiting, task_calls>>

InitTasks ==
    /\ task_pos = [r \in Requests |-> 0]
    /\ task_waiting = [r \in Requests |-> FALSE]
    /\ task_calls = [r \in Requests |-> {}]

-----------------------------------------------------------------------------
(* SpecFetch: http_get_with_retry called directly, with any max_retries in *)
(* 1..MaxRetriesBound and any outcome of each attempt.                     *)

nonFetchVars == <<rotVars, chainVars, searchVars, extractVars, taskVars>>

FetchCallDirect ==
    /\ \E m \in 1..MaxRetriesBound : HttpCall("direct", m)
    /\ UNCHANGED nonFetchVars

FetchAttempt ==
    /\ \E o \in Outcomes : HttpAttempt(o)
    /\ UNCHANGED nonFetchVars

FetchSleep ==
    /\ HttpSleep
    /\ UNCHANGED nonFetchVars

NextFetch ==
    \/ FetchCallDirect
    \/ FetchAttempt
    \/ FetchSleep

InitSpecFetch ==
    InitFetch /\ InitRotator /\ InitChain /\ InitSearch /\ InitExtractWo /\ InitTasks

SpecFetch == InitSpecFetch /\ [][NextFetch]_vars

\* outcomes is k answers 429 followed by one answer 200
Is429sThen200(h) ==
    /\ Len(h) >= 1
    /\ h[Len(h)] = "200"
    /\ \A i \in 1..(Len(h) - 1) : h[i] = "429"

All429(h) == \A i \in 1..Len(h) : h[i] = "429"

\* C1: a direct call whose attempts were answered by k 429s and then a 200,
\* k < max_retries, returns that 200 response; a call that saw only 429s goes
\* on until max_retries attempts were made, and then returns None.  It
\* neither raises nor gives up early on such answers.
C1_RateLimitedFetch ==
    /\ (f_pc = "returned" /\ f_caller = "direct" /\ Is429sThen200(outcomes)) =>
          (response = "r200" /\ Len(outcomes) - 1 < max_retries)
    /\ (f_pc = "returned" /\ f_caller = "direct" /\ All429(outcomes)) =>
          (response = "none" /\ Len(outcomes) = max_retries)
    /\ (f_pc = "raised") => ~ (Is429sThen200(outcomes) \/ All429(outcomes))
    /\ (f_pc \in {"get", "sleep_backoff", "sleep_fixed"}) => attempt < max_retries

\* C1 witness: two 429s, then a 200 in the third and last attempt, returned
C1_Witness ==
    /\ f_pc = "returned"
    /\ outcomes = <<"429", "429", "200">>
    /\ max_retries = 3
    /\ response = "r200"

\* C2: http_get_with_retry never propagates an exception: whatever the
\* attempts do, the call ends by returning, after at most max_retries attempts.
C2_NeverRaises ==
    /\ f_pc # "raised"
    /\ Len(outcomes) <= max_retries
    /\ (f_pc = "returned") => response \in {"r200", "none"}

-----------------------------------------------------------------------------
(* SpecRotator: NumCallers tasks call get_key concurrently, MaxKeyCalls    *)
(* times in all, and use the keys they get.                                *)

nonRotVars == <<fetchVars, chainVars, searchVars, extractVars, taskVars>>

RotAcquire == (\E c \in Callers : GetKeyAcquire(c)) /\ UNCHANGED nonRotVars
RotRead == (\E c \in Callers : GetKeyRead(c)) /\ UNCHANGED nonRotVars
RotAdvance == (\E c \in Callers : GetKeyAdvance(c)) /\ UNCHANGED nonRotVars
RotReturn == (\E c \in Callers : GetKeyReturn(c)) /\ UNCHANGED nonRotVars
RotUse == (\E c \in Callers, ok \in BOOLEAN : KeyUsed(c, ok)) /\ UNCHANGED nonRotVars

NextRotator ==
    \/ RotAcquire
    \/ RotRead
    \/ RotAdvance
    \/ RotReturn
    \/ RotUse

InitSpecRotator ==
    InitFetch /\ InitRotator /\ InitChain /\ InitSearch /\ InitExtractWo /\ InitTasks

SpecRotator == InitSpecRotator /\ [][NextRotator]_vars

\* the callers whose get_key has read the index and not yet returned
InCall == {c \in Callers : r_pc[c] \in {"read", "advanced"}}

\* C3: the read of the rotation index and its increment are atomic under any
\* interleaving of get_key callers: no two calls observe the same index value
\* (completed or still inside the call), and the k-th call to complete,
\* k from 0, returns keys[k mod len(keys)].
C3_AtomicRotation ==
    /\ \A i, j \in 1..Len(handed) : i # j => handed[i].seen # handed[j].seen
    /\ \A c \in InCall : \A i \in 1..Len(handed) : handed[i].seen # r_seen[c]
    /\ \A c, d \in InCall : c # d => r_seen[c] # r_seen[d]
    /\ \A k \in 0..(Len(handed) - 1) :
          handed[k + 1].key = SERPAPI_KEYS[(k % Len(SERPAPI_KEYS)) + 1]

\* C3 witness: four calls completed, by both callers, while the other caller
\* is waiting for the lock or inside the call
C3_Witness ==
    /\ Len(handed) = 4
    /\ handed[4].key = SERPAPI_KEYS[1]
    /\ \E c \in Callers : r_pc[c] = "advanced"
    /\ \E c \in Callers : r_pc[c] = "idle"

\* how many completed get_key calls handed out the key at position p
HandedCount(p) == Cardinality({i \in 1..Len(handed) : handed[i].key = SERPAPI_KEYS[p]})

\* C4: after any number of completed get_key calls the numbers of times each
\* key was handed out differ by at most one, whether the requests made with
\* the keys succeeded or failed.
C4_EvenDistribution ==
    \A p, q \in 1..Len(SERPAPI_KEYS) :
        HandedCount(p) <= HandedCount(q) + 1

\* C4 witness: five calls completed, a request made with a key has failed
C4_Witness ==
    /\ Len(handed) = 5
    /\ \E i \in 1..Len(used) : ~ used[i].ok
    /\ HandedCount(1) = 2 /\ HandedCount(3) = 1

-----------------------------------------------------------------------------
(* SpecChain: extract_br_from_wo called for one WO number, with any outcome *)
(* of every attempt of its fetches and any body in every response.          *)

Hops == {"hop1", "hop2", "hop3"}

ChainStart == (\E wo \in WoPool : ExtractStart(wo)) /\ UNCHANGED <<searchVars, extractVars, taskVars>>
ChainGetKey == ExtractGetKey /\ UNCHANGED <<searchVars, extractVars, taskVars>>
ChainHopCall == (\E hop \in Hops : ExtractHopCall(hop)) /\ UNCHANGED <<searchVars, extractVars, taskVars>>
ChainAttempt ==
    (\E o \in Outcomes : HttpAttempt(o)) /\ UNCHANGED <<rotVars, chainVars, searchVars, extractVars, taskVars>>
ChainFetchSleep == HttpSleep /\ UNCHANGED <<rotVars, chainVars, searchVars, extractVars, taskVars>>
ChainHopRaised == ExtractHopRaised /\ UNCHANGED <<searchVars, extractVars, taskVars>>
ChainHopNone == (\E hop \in Hops : ExtractHopNone(hop)) /\ UNCHANGED <<searchVars, extractVars, taskVars>>
ChainHop1Body == (\E body \in SearchBodies : ExtractHop1Body(body)) /\ UNCHANGED <<searchVars, extractVars, taskVars>>
ChainSleep == ExtractSleep /\ UNCHANGED <<searchVars, extractVars, taskVars>>
ChainHop2Body == (\E body \in EndpointBodies : ExtractHop2Body(body)) /\ UNCHANGED <<searchVars, extractVars, taskVars>>
ChainHop3BadBody == ExtractHop3BadBody /\ UNCHANGED <<searchVars, extractVars, taskVars>>
ChainScan == (\E pd \in PatentDataPool : ExtractScan(pd)) /\ UNCHANGED <<searchVars, extractVars, taskVars>>

NextChain ==
    \/ ChainStart
    \/ ChainGetKey
    \/ ChainHopCall
    \/ ChainAttempt
    \/ ChainFetchSleep
    \/ ChainHopRaised
    \/ ChainHopNone
    \/ ChainHop1Body
    \/ ChainSleep
    \/ ChainHop2Body
    \/ ChainHop3BadBody
    \/ ChainScan

InitSpecChain ==
    InitFetch /\ InitRotator /\ InitChain /\ InitSearch /\ InitExtractWo /\ InitTasks

SpecChain == InitSpecChain /\ [][NextChain]_vars

TerminalStatuses == {"success", "no_br", "skip", "error"}

AllHopsAndScan == <<"hop1", "hop2", "hop3", "scan">>

\* C5: whatever the upstream answers (failures, missing fields, exceptions),
\* extract_br_from_wo returns with status success, no_br, skip or error, and
\* never with status pending.
C5_TerminalStatus ==
    c_pc = "returned" => result.status \in TerminalStatuses

\* C5 witness: the call returned after an exception raised by the scan of the
\* detail record
C5_Witness ==
    /\ c_pc = "returned"
    /\ c_events = <<"hop1", "hop2", "hop3", "scan_raised">>
    /\ result.status = "error"

\* C6: every outcome returned with a status other than success (no_br, skip,
\* error) carries a recorded reason: reason is neither None nor empty.
C6_NonSuccessHasReason ==
    (c_pc = "returned" /\ result.status # "success") =>
        result.reason \notin {PyNone, ""}

\* C7: when extract_br_from_wo returns, on every path, status is success if
\* and only if the returned br_patents is non-empty; and when the three hops
\* succeeded and the scan of the detail record ended having found no BR
\* identifier, status is no_br (and no_br is given on no other path).
C7_SuccessIffFound ==
    c_pc = "returned" =>
        /\ (result.status = "success") <=> (result.br_patents # {})
        /\ (c_events = AllHopsAndScan /\ result.br_patents = {}) => result.status = "no_br"
        /\ (result.status = "no_br") => c_events = AllHopsAndScan

\* C7 witness: all three hops succeeded, the scan found nothing: no_br
C7_Witness ==
    /\ c_pc = "returned"
    /\ c_events = AllHopsAndScan
    /\ result.br_patents = {}
    /\ result.status = "no_br"

\* the last event of the resolution, "" when there is none
LastEvent == IF c_events = <<>> THEN "" ELSE c_events[Len(c_events)]

\* C15: in extract_br_from_wo a missing (None) response to the search of hop 1
\* gives status error; an absent json_endpoint, an absent or empty
\* organic_results and an absent serpapi_link each give status skip, with a
\* reason that names the missing element.
C15_HopFailureStatuses ==
    c_pc = "returned" =>
        /\ LastEvent = "hop1_failed" => result.status = "error"
        /\ LastEvent = "no_endpoint" =>
              result.status = "skip" /\ result.reason = "No json_endpoint"
        /\ LastEvent = "no_organic" =>
              result.status = "skip" /\ result.reason = "No organic results"
        /\ LastEvent = "no_link" =>
              result.status = "skip" /\ result.reason = "No serpapi_link"

\* C15 witness: hop 1 gave the endpoint, the endpoint response had a first
\* result without serpapi_link: skip
C15_Witness ==
    /\ c_pc = "returned"
    /\ c_events = <<"hop1", "no_link">>
    /\ result.status = "skip"

\* the BR-prefixed identifiers of the entries of a list, for the entries that
\* are objects (and strings, where the sub-field holds strings too)
BrIdsOf(l, shapes) ==
    { l.items[k].v : k \in { j \in 1..Len(l.items) :
                                l.items[j].t \in shapes /\ StartsWithBR(l.items[j].v) } }

\* the BR-prefixed identifiers found in the five sub-fields of a detail record
BrFound(pd) ==
    UNION { BrIdsOf(pd.worldwide_applications.items[y], {"dict"}) :
              y \in { j \in 1..Len(pd.worldwide_applications.items) :
                         pd.worldwide_applications.items[j].isList } }
      \cup BrIdsOf(pd.family_members, {"dict"})
      \cup BrIdsOf(pd.also_published_as, {"dict", "str"})
      \cup BrIdsOf(pd.citations, {"dict"})
      \cup BrIdsOf(pd.similar_documents, {"dict"})

\* a record with one BR entry in worldwide_applications, the rest empty
OneWorldwideBR ==
    [ worldwide_applications |-> List(<< List(<<Doc(BR1A)>>) >>),
      family_members |-> List(<<>>), also_published_as |-> List(<<>>),
      citations |-> List(<<>>), similar_documents |-> List(<<>>) ]

-----------------------------------------------------------------------------
(* SpecSearch: one request to search_patents, with any outcome of every     *)
(* attempt of every fetch and any body in every response.                   *)

\* the detail records the chain is answered with in a request
SearchPatentData ==
    [ worldwide_applications : { List(<<>>), List(<< List(<<Doc(BR1A)>>) >>), NotAList },
      family_members : { List(<<>>), List(<<Doc(BR_1a), Other>>) },
      also_published_as : { List(<<>>) },
      citations : { List(<<>>) },
      similar_documents : { List(<<>>), List(<<Doc(BR2)>>) } ]

SearchStart ==
    \E name \in NameInputs, commercial \in CommercialInputs : SearchRequest(name, commercial)
SearchAttempt ==
    (\E o \in Outcomes : HttpAttempt(o)) /\ UNCHANGED <<rotVars, chainVars, searchVars, extractVars, taskVars>>
SearchFetchSleep == HttpSleep /\ UNCHANGED <<rotVars, chainVars, searchVars, extractVars, taskVars>>
SearchScan == (\E pd \in SearchPatentData : ExtractScan(pd)) /\ UNCHANGED <<searchVars, extractVars, taskVars>>

NextSearch ==
    \/ SearchStart
    \/ PubchemCall
    \/ PubchemReturn
    \/ DiscoverGetKey
    \/ QueryCall
    \/ QueryReturn
    \/ QuerySleep
    \/ DiscoverReturn
    \/ ResolveStart
    \/ ChainGetKey
    \/ ChainHopCall
    \/ ChainHopRaised
    \/ ChainHopNone
    \/ ChainHop1Body
    \/ ChainSleep
    \/ ChainHop2Body
    \/ ChainHop3BadBody
    \/ SearchScan
    \/ ResolveCollect
    \/ ResolveSleep
    \/ ResolveDone
    \/ InpiCall
    \/ InpiReturn
    \/ InpiSleep
    \/ SearchRespond
    \/ SearchAttempt
    \/ SearchFetchSleep

InitSpecSearch ==
    InitFetch /\ InitRotator /\ InitChain /\ InitSearch /\ InitExtractWo /\ InitTasks

SpecSearch == InitSpecSearch /\ [][NextSearch]_vars

\* C8: a request whose molecule name is empty after trimming (or missing) is
\* rejected before any external call: no GET is ever sent on its behalf, to
\* PubChem, to the search API or to the registry crawler.
C8_EmptyNameNoCalls ==
    (p_pc # "idle" /\ molecule = <<>>) => contacted = {}

\* an identifier with its hyphens and spaces removed and its letters folded
Canonical(s) == Lower(RemoveChar(RemoveChar(s, " "), "-"))

\* the positions of the consolidated list whose identifier is id, up to
\* hyphens, spaces and letter case
RecordsOf(id) ==
    {k \in 1..Len(consolidated.all_br_patents) :
        Canonical(consolidated.all_br_patents[k].number) = Canonical(id)}

\* C9: no two records of the consolidated list have identifiers that differ
\* only by hyphens, spaces or letter case.
C9_DistinctNormalized ==
    \A k \in 1..Len(consolidated.all_br_patents) :
        RecordsOf(consolidated.all_br_patents[k].number) = {k}

\* C9 witness: the chain gave BR1A and BR-1a, the registry search gave BR-1A,
\* and the list of the response holds one record for the three
C9_Witness ==
    /\ p_pc = "responded"
    /\ {BR1A, BR_1a} \subseteq all_br_from_wo
    /\ \E k \in 1..Len(inpi.br_patents) :
          inpi.br_patents[k].number = SpacesToHyphens(T_BR_1A)
    /\ Cardinality(RecordsOf(BR1A)) = 1

\* C10: when the response is built, an identifier that both the resolution
\* chain and the registry search produced (the same up to hyphens, spaces and
\* case) has exactly one record in the consolidated list, and that record is
\* tagged wo_extraction.
C10_ChainOriginPreferred ==
    p_pc = "responded" =>
        \A br \in all_br_from_wo :
            (\E k \in 1..Len(inpi.br_patents) :
                Canonical(inpi.br_patents[k].number) = Canonical(br)) =>
              /\ Cardinality(RecordsOf(br)) = 1
              /\ \A k \in RecordsOf(br) :
                    consolidated.all_br_patents[k].source = "wo_extraction"

\* C10 witness: BR2 came from the chain and from the registry search, BR-1A
\* from the registry search only and before BR2; the list has BR2 from the
\* chain and BR-1A from the registry
C10_Witness ==
    /\ p_pc = "responded"
    /\ all_br_from_wo = {BR2}
    /\ Numbers(inpi.br_patents) = <<SpacesToHyphens(T_BR_1A), BR2>>
    /\ consolidated.all_br_patents =
          << [number |-> BR2, source |-> "wo_extraction"],
             [number |-> SpacesToHyphens(T_BR_1A), source |-> "inpi_direct"] >>

\* C11: every accepted request returns a report, whatever the upstream does
\* (fetches that give up, exceptions of the client, responses without the
\* expected structure): no exception ever leaves search_patents.
C11_NeverPropagates ==
    p_pc # "failed"

-----------------------------------------------------------------------------
(* SpecExtractWo: extract_wo_numbers_from_text called on one text.          *)

\* The texts of the model: an optional label, WO in either case, an optional
\* separator, a year of four or two digits, an optional separator, a serial
\* of six, three or seven digits, and an optional tail with a second number.
TextLabels == { <<>>, LitPatent \o <<":", " ">>, LitPublication \o <<" ">> }
TextPrefixes == { LitWO, <<"w", "o">> }
TextYearSeps == { <<>>, <<" ">>, <<"-">> }
TextYears ==
    { <<"2", "0", "1", "1">>, <<"1", "9", "8", "9">>, <<"2", "0", "2", "6">>,
      <<"1", "9", "9", "0">>, <<"2", "0", "2", "5">>, <<"1", "1">>, <<"8", "9">> }
TextSerialSeps == { <<>>, <<"/">>, <<" ">> }
TextSerials ==
    { <<"0", "5", "1", "5", "4", "0">>, <<"5", "4", "0">>,
      <<"0", "5", "1", "5", "4", "0", "1">> }
TextTails == { <<>>, <<";", " ">> \o LitWO \o <<" ", "2", "0", "1", "6", " ", "1", "2", "0", "5", "3", "0">> }
TextPool ==
    { l \o w \o a \o y \o b \o n \o t :
        l \in TextLabels, w \in TextPrefixes, a \in TextYearSeps, y \in TextYears,
        b \in TextSerialSeps, n \in TextSerials, t \in TextTails }

WoCallAny == \E text \in TextPool \cup {<<>>} : WoCall(text)

NextExtractWo ==
    \/ WoCallAny
    \/ WoReturn

InitSpecExtractWo ==
    InitFetch /\ InitRotator /\ InitChain /\ InitSearch /\ InitExtractWo /\ InitTasks

SpecExtractWo == InitSpecExtractWo /\ [][NextExtractWo]_vars

\* WO followed by ten digits
IsCanonicalWo(wo) ==
    /\ Len(wo) = 12
    /\ wo[1] = "W" /\ wo[2] = "O"
    /\ \A k \in 3..12 : wo[k] \in Digits

\* C12: every identifier extract_wo_numbers_from_text returns is WO, a year
\* of four digits and a serial of six digits, with the year in 1990..2025.
C12_CanonicalValidYear ==
    x_pc = "returned" =>
        \A wo \in x_wo_numbers :
            /\ IsCanonicalWo(wo)
            /\ DigitsValue(SubSeq(wo, 3, 6)) \in 1990..2025

\* C12 witness: the text "patent: WO 2026/051540; WO 2016 120530" gave the
\* second number only, the first having its year out of the range
C12_Witness ==
    /\ x_pc = "returned"
    /\ x_text = LitPatent \o <<":", " ">> \o LitWO
                  \o <<" ", "2", "0", "2", "6", "/", "0", "5", "1", "5", "4", "0">>
                  \o <<";", " ">> \o LitWO
                  \o <<" ", "2", "0", "1", "6", " ", "1", "2", "0", "5", "3", "0">>
    /\ x_wo_numbers = {WO2016120530}

\* C13: a text that carries WO, a valid year, a separator and the serial 540
\* of three digits yields the identifier with the serial padded to 000540.
C13_ZeroPadsSerial ==
    x_pc = "returned" =>
        \A a \in TextYearSeps, b \in { <<"/">>, <<" ">> },
           y \in { <<"2", "0", "1", "1">>, <<"1", "9", "9", "0">>, <<"2", "0", "2", "5">> } :
            x_text = LitWO \o a \o y \o b \o <<"5", "4", "0">> =>
                (LitWO \o y \o <<"0", "0", "0", "5", "4", "0">>) \in x_wo_numbers

\* the order of the hops of one resolution
HopOrder == <<"hop1", "hop2", "hop3">>

\* the events that record a hop failure
FailureEvents ==
    {"hop1_failed", "hop2_failed", "hop3_failed", "no_endpoint", "no_organic", "no_link"}

IsPrefix(a, b) == Len(a) <= Len(b) /\ \A k \in 1..Len(a) : a[k] = b[k]

\* C16: within one resolution the fetches are called in the order search,
\* endpoint, details, each at most once and each later one only after the
\* earlier hop ended well; a hop failure ends the resolution at once, with no
\* fetch in progress or called after it; and the outer loop holds exactly one
\* outcome per identifier, in the order of the identifiers, going on to the
\* next identifier after a failure.
C16_HopsInOrderNoRetry ==
    /\ IsPrefix(c_calls, HopOrder)
    /\ \A k \in 1..(Len(c_calls) - 1) : Len(c_events) >= k /\ c_events[k] = c_calls[k]
    /\ \A k \in 1..Len(c_events) :
          c_events[k] \in FailureEvents =>
              /\ k = Len(c_events)
              /\ k = Len(c_calls)
              /\ c_pc = "returned"
    /\ c_pc = "returned" => f_pc = "idle"
    /\ c_pc # "idle" =>
          /\ p_pc = "extracting"
          /\ Len(wo_results) = wo_i
          /\ wo_number = wo_numbers[wo_i + 1]
    /\ Len(wo_results) <= Len(wo_numbers)
    /\ \A k \in 1..Len(wo_results) : wo_results[k].wo_number = wo_numbers[k]

\* C16 witness: the first identifier ended at hop 2 (no organic results); the
\* second one is at its details fetch after two hops that ended well
C16_Witness ==
    /\ p_pc = "extracting"
    /\ Len(wo_results) = 1
    /\ wo_results[1].reason = "No organic results"
    /\ c_calls = HopOrder
    /\ c_events = <<"hop1", "hop2">>
    /\ c_pc = "hop3_wait"

\* discover_wo_numbers has returned
DiscoveryReturned ==
    p_pc \in {"resolve", "extracting", "wo_sleep", "inpi", "inpi_wait", "inpi_sleep", "responded"}

\* C18: a query that fails (its fetch gives None, or an exception is raised
\* inside the search call) never aborts the batch: the loop goes on to its
\* pause; the queries are executed in list order, each once; and when
\* discover_wo_numbers returns every query was executed and every identifier
\* found by a query is in the list returned.
C18_FailingQueryNeverAborts ==
    /\ \A j \in 1..Len(q_log) : q_log[j] = j - 1
    /\ Len(q_log) <= Len(Queries)
    /\ q_outcome \in EngineFailures => p_pc \in {"query_sleep", "discover"}
    /\ DiscoveryReturned =>
          /\ Len(q_log) = Len(Queries)
          /\ q_found \subseteq {wo_numbers[k] : k \in 1..Len(wo_numbers)}

\* C18 witness: the last query of the list raised inside its search call,
\* after queries that found the two identifiers, and the loop is at its pause
C18_Witness ==
    /\ p_pc = "query_sleep"
    /\ q_outcome = "raised"
    /\ q_i = Len(Queries) - 1
    /\ q_found = WoPool
    /\ all_wo_numbers = WoPool

\* C19: a pause follows every discovery query, whether it succeeded or
\* failed: whenever the loop is about to issue a query after another, or has
\* ended, line 378 has slept since the last query was issued.
C19_PauseAfterEveryQuery ==
    ((p_pc = "discover" \/ DiscoveryReturned) /\ q_log # <<>>) => q_paused

\* C19 witness: the first query failed (fetch gave None), the pause followed,
\* the second query is about to be issued
C19_Witness ==
    /\ p_pc = "discover"
    /\ q_i = 1
    /\ q_outcome = "none"
    /\ q_paused

\* C14: when the synonym lookup fails (the fetch gives None, raises, or the
\* payload makes the reading raise), fetch_pubchem_data returns the empty
\* profile, and the request goes on with it.
C14_FailedLookupEmptyProfile ==
    pubchem_failed => pubchem_data = EmptyProfile

\* C20: a pause separates any two consecutive registry-crawler queries, also
\* when the earlier one failed or raised: when a term is about to be sent
\* after another, line 618 has slept since that one was sent.
C20_PauseBetweenTerms ==
    (p_pc = "inpi" /\ term_i > 0 /\ term_i < Len(Terms)) => t_paused

\* C21: no term string is sent to the registry crawler more than once in a
\* request, whatever the molecule name and the dev codes are.
C21_EachTermSentOnce ==
    \A j, k \in 1..Len(t_sent) : j # k => t_sent[j] # t_sent[k]

\* C22: the phases of a request run in the order enrichment, discovery,
\* resolution, registry search, consolidation: a query is issued only after
\* the PubChem lookup is over, a resolution hop only after every query is
\* done, a registry term only after every identifier is resolved, and the
\* response is consolidated from the finished results of both sources.
C22_PhasesInOrder ==
    /\ q_log # <<>> =>
          /\ p_pc \notin {"idle", "rejected", "pubchem_call", "pubchem_wait"}
          /\ f_caller # "pubchem"
    /\ (c_pc # "idle" \/ wo_results # <<>>) =>
          /\ q_i = Len(Queries)
          /\ Len(q_log) = Len(Queries)
          /\ f_caller \notin {"pubchem", "google", "google_patents"}
    /\ t_sent # <<>> =>
          /\ q_i = Len(Queries)
          /\ wo_i = Len(wo_numbers)
          /\ Len(wo_results) = Len(wo_numbers)
          /\ c_pc = "idle"
          /\ f_caller \in {"none", "inpi"}
    /\ p_pc = "responded" =>
          /\ Len(t_sent) = Len(Terms)
          /\ Len(wo_results) = Len(wo_numbers)
          /\ f_pc = "idle" /\ c_pc = "idle"
          /\ \E from_wo \in Orders(all_br_from_wo) :
                consolidated = Consolidate(from_wo, inpi.br_patents)

\* C22 witness: a response after all five phases called out: the lookup, the
\* queries at both engines, the three hops for two identifiers, four terms
C22_Witness ==
    /\ p_pc = "responded"
    /\ contacted = {"pubchem", "google", "google_patents", "hop1", "hop2", "hop3", "inpi"}
    /\ Len(wo_results) = 2
    /\ Len(t_sent) = 5
    /\ consolidated.all_br_patents # <<>>

-----------------------------------------------------------------------------
(* SpecRequests: concurrent requests, each a coroutine of the event loop.   *)

nonTaskVars == <<fetchVars, rotVars, chainVars, searchVars, extractVars>>

RequestArrive == (\E r \in Requests : TaskArrive(r)) /\ UNCHANGED nonTaskVars
RequestCall == (\E r \in Requests : TaskCall(r)) /\ UNCHANGED nonTaskVars
RequestCallOver ==
    /\ \E r \in Requests, pos \in 1..Len(AwaitSites), o \in CallOutcomes :
          TaskCallOver(r, pos, o)
    /\ UNCHANGED nonTaskVars
RequestSleep == (\E r \in Requests : TaskSleep(r)) /\ UNCHANGED nonTaskVars

NextRequests ==
    \/ RequestArrive
    \/ RequestCall
    \/ RequestCallOver
    \/ RequestSleep

InitSpecRequests ==
    InitFetch /\ InitRotator /\ InitChain /\ InitSearch /\ InitExtractWo /\ InitTasks

SpecRequests == InitSpecRequests /\ [][NextRequests]_vars

\* C23: a request has at most one outbound call in flight at any time, the one
\* its coroutine is suspended on, whether a discovery query, a resolution
\* hop or a registry query; several requests can each have one in flight.
C23_OneCallInFlightPerRequest ==
    \A r \in Requests :
        /\ Cardinality(task_calls[r]) <= 1
        /\ task_calls[r] # {} => task_waiting[r] /\ task_calls[r] = {task_pos[r]}

\* C23 witness: two requests have a call in flight at the same time, one a
\* discovery query that follows a query, the other a resolution hop
C23_Witness ==
    /\ task_calls[1] # {} /\ task_calls[2] # {}
    /\ AwaitSites[task_pos[1]].name = "google"
    /\ AwaitSites[task_pos[2]].name = "hop2"

\* C24: the query at 0-based position i of the list goes to the patent
\* engine exactly when i mod 3 = 0 and to the web engine otherwise, whatever
\* its strategy is and however the queries before it ended.
C24_EngineByPosition ==
    p_pc = "query_wait" =>
        /\ f_caller \in {"google_patents", "google"}
        /\ f_caller = "google_patents" <=> q_i % 3 = 0

\* C24 witness: a dev-code query at a position that is a multiple of 3 is in
\* flight at the patent engine, after year and company queries that went to
\* both engines
C24_Witness ==
    /\ p_pc = "query_wait"
    /\ q_i = 36
    /\ Queries[q_i + 1].strategy = "dev_code"
    /\ f_caller = "google_patents"
    /\ f_pc = "get"

\* C25: the synonym strategy builds at most 5 queries and none for a synonym
\* that equals the molecule name.
C25_SynonymQueriesExcludeName ==
    p_pc \notin {"idle", "rejected", "pubchem_call", "pubchem_wait"} =>
        /\ Cardinality({k \in 1..Len(Queries) : Queries[k].strategy = "synonym"}) <= 5
        /\ \A k \in 1..Len(Queries) :
              Queries[k].strategy = "synonym" => Queries[k].subject # molecule

\* C26: every discovered identifier gets one resolution outcome, in the order
\* discovered, and in the report successful + no_br_patents +
\* skipped_or_error = total_processed = the number of discovered identifiers.
C26_StatusCountsPartition ==
    /\ Len(wo_results) <= Len(wo_numbers)
    /\ \A k \in 1..Len(wo_results) : wo_results[k].wo_number = wo_numbers[k]
    /\ \A j, k \in 1..Len(wo_numbers) : j # k => wo_numbers[j] # wo_numbers[k]
    /\ p_pc = "responded" =>
          /\ report.total_processed = Len(wo_numbers)
          /\ report.total_found = Len(wo_numbers)
          /\ report.successful + report.no_br_patents + report.skipped_or_error
                = report.total_processed

\* C26 witness: a report over two identifiers, both resolved with the same
\* status
C26_Witness ==
    /\ p_pc = "responded"
    /\ report.total_processed = 2
    /\ wo_results[1].status = "skip"
    /\ wo_results[2].status = "skip"
    /\ report.skipped_or_error = 2

\* C27: in the report from_wo_extraction + from_inpi_direct = total, the
\* length of the consolidated list.
C27_SourceCountsPartition ==
    p_pc = "responded" =>
        report.from_wo_extraction + report.from_inpi_direct = report.total

=============================================================================
